---------------------------- MODULE Spec2Model ----------------------------
(***************************************************************************)
(* Booking subsystem of drivent: the booking service                       *)
(* (src/src/services/booking-service/index.ts), the booking controller     *)
(* (src/src/controllers/booking-controller.ts) and the room repository     *)
(* (src/src/repositories/room-repository/index.ts), over a relational      *)
(* store of rooms and bookings.                                            *)
(*                                                                         *)
(* Spec     : every request runs to completion before the next starts.     *)
(* SpecRace : two requests interleave at the awaits of the service code.   *)
(***************************************************************************)
EXTENDS Integers, FiniteSets

VARIABLES
    rooms,     \* Room table: room id -> capacity (capacities never change)
    bookings,  \* Booking table: set of rows [id, userId, roomId]
    nextId,    \* the autoincrement counter of Booking.id
    last,      \* the request served last and its response (Spec)
    procs      \* the two in-flight requests and their positions (SpecRace)

vars == <<rooms, bookings, nextId, last, procs>>

---------------------------------------------------------------------------
(* Bounds of the model *)

MaxUser == 2
MaxRoom == 2
MaxCapacity == 2
MaxBookingId == 3

UserIds == 1..MaxUser
RoomIds == 1..MaxRoom
\* room ids a request may carry: the rows of Room and one id of no row
RoomIdInputs == 0..MaxRoom
BookingIds == 1..MaxBookingId

TicketStatus == {"RESERVED", "PAID"}
Tickets == [status : TicketStatus, includesHotel : BOOLEAN, isRemote : BOOLEAN]

ok == "ok"
UnauthorizedError == "UnauthorizedError"
ForbiddenError == "ForbiddenError"
NotFoundError == "NotFoundError"

NoBooking == [id |-> 0, userId |-> 0, roomId |-> 0]
NoTicket == [status |-> "none", includesHotel |-> FALSE, isRemote |-> FALSE]
NoBody == [id |-> 0, Room |-> [id |-> 0, capacity |-> 0]]

---------------------------------------------------------------------------
(* Repositories *)

\* Booking rows joined with their Room (include: { Room: true })
WithRoom(b) ==
    [id |-> b.id, userId |-> b.userId, roomId |-> b.roomId,
     Room |-> [id |-> b.roomId, capacity |-> rooms[b.roomId]]]

\* bookingRepository.findBookingByUserId: findFirst where userId. The rows
\* it may return: any row of the user (no orderBy), or none.
FindBookingByUserId(bs, userId) ==
    LET found == {b \in bs : b.userId = userId}
    IN  IF found = {} THEN {NoBooking} ELSE {WithRoom(b) : b \in found}

\* bookingRepository.findBookingByRoomId: findMany where roomId, with Room
FindBookingByRoomId(bs, roomId) ==
    {WithRoom(b) : b \in {x \in bs : x.roomId = roomId}}

\* bookingRepository.findBookingByBookingId: findFirst where id
FindBookingByBookingId(bs, bookingId) ==
    LET found == {b \in bs : b.id = bookingId}
    IN  IF found = {} THEN NoBooking ELSE CHOOSE b \in found : TRUE

\* bookingRepository.insertBooking: create {userId, roomId}, id autoincrement
InsertBooking(bs, nid, userId, roomId) ==
    bs \cup {[id |-> nid, userId |-> userId, roomId |-> roomId]}

\* bookingRepository.updateBooking: update where id, data {roomId}
UpdateBooking(bs, bookingId, roomId) ==
    {IF b.id = bookingId THEN [b EXCEPT !.roomId = roomId] ELSE b : b \in bs}

\* roomRepository.listRoom: findFirst where id; TRUE when a row is found
ListRoom(roomId) == roomId \in DOMAIN rooms

---------------------------------------------------------------------------
(* Booking service *)

Result(err, bs, value) == [err |-> err, bookings |-> bs, value |-> value]

\* mutant: the response carries the booking's user id as its id
GetBookingByUserId_UserId(booking) ==
    IF booking = NoBooking
    THEN [err |-> NotFoundError, body |-> NoBody]
    ELSE [err |-> ok, body |-> [id |-> booking.userId, Room |-> booking.Room]]

GetBookingByUserId(booking) ==
    IF booking = NoBooking
    THEN [err |-> NotFoundError, body |-> NoBody]
    ELSE [err |-> ok, body |-> [id |-> booking.id, Room |-> booking.Room]]

\* mutant: the remote check is forgotten
ValidateTicket_NoRemote(ticket) ==
    IF ~ticket.includesHotel \/ ticket.status = "RESERVED"
    THEN UnauthorizedError
    ELSE ok

ValidateTicket(ticket) ==
    IF ~ticket.includesHotel \/ ticket.isRemote \/ ticket.status = "RESERVED"
    THEN UnauthorizedError
    ELSE ok

\* mutant: the capacity test is off by one (< 0 for < 1)
ValidateBookingByRoomId_OffByOne(bs, roomId) ==
    LET booking == FindBookingByRoomId(bs, roomId)
        bookingQuantity == Cardinality(booking)
    IN  IF bookingQuantity = 0 THEN NotFoundError
        ELSE LET roomCapacity == (CHOOSE b \in booking : TRUE).Room.capacity
             IN  IF roomCapacity - bookingQuantity < 0 THEN ForbiddenError
                 ELSE ok

\* mutant: the capacity of the room is not checked
ValidateBookingByRoomId_NoCapacity(bs, roomId) ==
    LET booking == FindBookingByRoomId(bs, roomId)
        bookingQuantity == Cardinality(booking)
    IN  IF bookingQuantity = 0 THEN NotFoundError ELSE ok

\* mutant: a room without bookings is looked up in Room instead of failing
ValidateBookingByRoomId_EmptyOk(bs, roomId) ==
    LET booking == FindBookingByRoomId(bs, roomId)
        bookingQuantity == Cardinality(booking)
    IN  IF ~ListRoom(roomId) THEN NotFoundError
        ELSE IF rooms[roomId] - bookingQuantity < 1 THEN ForbiddenError
        ELSE ok

ValidateBookingByRoomId(bs, roomId) ==
    LET booking == FindBookingByRoomId(bs, roomId)
        bookingQuantity == Cardinality(booking)
    IN  IF bookingQuantity = 0 THEN NotFoundError
        ELSE LET roomCapacity == (CHOOSE b \in booking : TRUE).Room.capacity
             IN  IF roomCapacity - bookingQuantity < 1 THEN ForbiddenError
                 ELSE ok

\* mutant: the user's existing booking is not checked
ValidateBookingByUserId_Never(booking) == ok

\* mutant: the user's existing booking is reported as not found
ValidateBookingByUserId_NotFound(booking) ==
    IF booking # NoBooking THEN NotFoundError ELSE ok

ValidateBookingByUserId(booking) ==
    IF booking # NoBooking THEN ForbiddenError ELSE ok

\* mutant: the row is inserted before the user's existing booking is checked
PostBooking_WriteFirst(bs, nid, userId, roomId, ticket, userBooking) ==
    IF ValidateTicket(ticket) # ok
    THEN Result(ValidateTicket(ticket), bs, 0)
    ELSE IF ValidateBookingByRoomId(bs, roomId) # ok
    THEN Result(ValidateBookingByRoomId(bs, roomId), bs, 0)
    ELSE IF ValidateBookingByUserId(userBooking) # ok
    THEN Result(ValidateBookingByUserId(userBooking),
                InsertBooking(bs, nid, userId, roomId), 0)
    ELSE Result(ok, InsertBooking(bs, nid, userId, roomId), nid)

\* userBooking: the row findBookingByUserId returns inside
\* validateBookingByUserId
PostBooking(bs, nid, userId, roomId, ticket, userBooking) ==
    IF ValidateTicket(ticket) # ok
    THEN Result(ValidateTicket(ticket), bs, 0)
    ELSE IF ValidateBookingByRoomId(bs, roomId) # ok
    THEN Result(ValidateBookingByRoomId(bs, roomId), bs, 0)
    ELSE IF ValidateBookingByUserId(userBooking) # ok
    THEN Result(ValidateBookingByUserId(userBooking), bs, 0)
    ELSE Result(ok, InsertBooking(bs, nid, userId, roomId), nid)

\* mutant: a caller without booking is reported as not found
CheckUserHasBooking_NotFound(bookingFromUser) ==
    IF bookingFromUser = NoBooking THEN NotFoundError ELSE ok

CheckUserHasBooking(bookingFromUser) ==
    IF bookingFromUser = NoBooking THEN ForbiddenError ELSE ok

CheckRoomExists(roomId) ==
    IF ~ListRoom(roomId) THEN NotFoundError ELSE ok

CheckBookingExists(bs, bookingId) ==
    IF FindBookingByBookingId(bs, bookingId) = NoBooking
    THEN NotFoundError
    ELSE ok

\* mutant: the booking id is not compared with the caller's booking
PutBooking_NoOwnerCheck(bs, userId, roomId, bookingId, bookingFromUser) ==
    IF CheckUserHasBooking(bookingFromUser) # ok
    THEN Result(CheckUserHasBooking(bookingFromUser), bs, 0)
    ELSE IF CheckRoomExists(roomId) # ok
    THEN Result(CheckRoomExists(roomId), bs, 0)
    ELSE IF CheckBookingExists(bs, bookingId) # ok
    THEN Result(CheckBookingExists(bs, bookingId), bs, 0)
    ELSE IF ValidateBookingByRoomId(bs, roomId) # ok
    THEN Result(ValidateBookingByRoomId(bs, roomId), bs, 0)
    ELSE Result(ok, UpdateBooking(bs, bookingId, roomId), bookingId)

\* bookingFromUser: the row findBookingByUserId returns inside
\* checkUserHasBooking
PutBooking(bs, userId, roomId, bookingId, bookingFromUser) ==
    IF CheckUserHasBooking(bookingFromUser) # ok
    THEN Result(CheckUserHasBooking(bookingFromUser), bs, 0)
    ELSE IF CheckRoomExists(roomId) # ok
    THEN Result(CheckRoomExists(roomId), bs, 0)
    ELSE IF CheckBookingExists(bs, bookingId) # ok
    THEN Result(CheckBookingExists(bs, bookingId), bs, 0)
    ELSE IF bookingFromUser.id # FindBookingByBookingId(bs, bookingId).id
    THEN Result(ForbiddenError, bs, 0)
    ELSE IF ValidateBookingByRoomId(bs, roomId) # ok
    THEN Result(ValidateBookingByRoomId(bs, roomId), bs, 0)
    ELSE Result(ok, UpdateBooking(bs, bookingId, roomId), bookingId)

---------------------------------------------------------------------------
(* Booking controller: error kind -> HTTP status *)

GetBookingStatus(err) ==
    IF err = ok THEN 200 ELSE 404

PostBookingStatus(err) ==
    IF err = ok THEN 200
    ELSE IF err = UnauthorizedError THEN 401
    ELSE IF err = ForbiddenError THEN 403
    ELSE 404

PutBookingStatus(err) ==
    IF err = ok THEN 200
    ELSE IF err = ForbiddenError THEN 403
    ELSE 404

---------------------------------------------------------------------------
(* Stores the program starts from *)

Count(bs, roomId) == Cardinality({b \in bs : b.roomId = roomId})

BookingsOf(bs, userId) == {b \in bs : b.userId = userId}

CapacityRespected(bs) == \A r \in RoomIds : Count(bs, r) <= rooms[r]

OneBookingPerUser(bs) == \A u \in UserIds : Cardinality(BookingsOf(bs, u)) <= 1

\* the rows of a table whose ids 1..nid-1 were handed out in order, one row
\* a user: f gives each row its room. User ids carry no meaning of their own,
\* so the users are numbered by their rows, the newest row first.
RowsOf(f, nid) ==
    {[id |-> i, userId |-> MaxUser + 1 - i, roomId |-> f[i]] :
        i \in 1..(nid - 1)}

\* rooms are numbered in order of capacity (room ids carry no other meaning)
RoomsInOrder(rs) == \A r \in RoomIds \ {MaxRoom} : rs[r] <= rs[r + 1]

NoRequest ==
    [op |-> "none", userId |-> 0, roomId |-> 0, bookingId |-> 0,
     ticket |-> NoTicket, err |-> ok, status |-> 0, value |-> 0,
     body |-> NoBody]

Idle ==
    [pc |-> "idle", op |-> "none", userId |-> 0, roomId |-> 0,
     bookingId |-> 0, bookingFromUser |-> 0]

\* the slots of the requests in flight
Procs == {1, 2}

InitStore ==
    /\ rooms \in [RoomIds -> 0..MaxCapacity]
    /\ RoomsInOrder(rooms)
    /\ nextId \in 1..MaxBookingId
    /\ nextId - 1 <= MaxUser
    /\ \E f \in [1..(nextId - 1) -> RoomIds] : bookings = RowsOf(f, nextId)
    /\ CapacityRespected(bookings)
    /\ OneBookingPerUser(bookings)

Init ==
    /\ InitStore
    /\ last = NoRequest
    /\ procs = [p \in Procs |-> Idle]

---------------------------------------------------------------------------
(* Requests served one at a time: controller + service *)

GetBooking ==
    \E userId \in UserIds :
    \E booking \in FindBookingByUserId(bookings, userId) :
        LET res == GetBookingByUserId(booking)
        IN  /\ last' = [NoRequest EXCEPT !.op = "get", !.userId = userId,
                           !.err = res.err,
                           !.status = GetBookingStatus(res.err),
                           !.body = res.body]
            /\ UNCHANGED <<rooms, bookings, nextId, procs>>

PostBookingReq ==
    /\ nextId <= MaxBookingId
    /\ \E userId \in UserIds, roomId \in RoomIdInputs, ticket \in Tickets :
       \E userBooking \in FindBookingByUserId(bookings, userId) :
        LET res == PostBooking(bookings, nextId, userId, roomId, ticket,
                               userBooking)
        IN  /\ bookings' = res.bookings
            /\ nextId' = IF res.err = ok THEN nextId + 1 ELSE nextId
            /\ last' = [NoRequest EXCEPT !.op = "post", !.userId = userId,
                           !.roomId = roomId, !.ticket = ticket,
                           !.err = res.err,
                           !.status = PostBookingStatus(res.err),
                           !.value = res.value]
            /\ UNCHANGED <<rooms, procs>>

PutBookingReq ==
    \E userId \in UserIds, roomId \in RoomIdInputs, bookingId \in BookingIds :
    \E bookingFromUser \in FindBookingByUserId(bookings, userId) :
        LET res == PutBooking(bookings, userId, roomId, bookingId,
                              bookingFromUser)
        IN  /\ bookings' = res.bookings
            /\ last' = [NoRequest EXCEPT !.op = "put", !.userId = userId,
                           !.roomId = roomId, !.bookingId = bookingId,
                           !.err = res.err,
                           !.status = PutBookingStatus(res.err),
                           !.value = res.value]
            /\ UNCHANGED <<rooms, nextId, procs>>

Next == GetBooking \/ PostBookingReq \/ PutBookingReq

Spec == Init /\ [][Next]_vars

---------------------------------------------------------------------------
(* Two requests in flight: a request yields at every await of the service,  *)
(* and the store is read or written once per step. A request that throws    *)
(* is answered and its slot is idle again.                                  *)

At(p, op, pc) == procs[p].op = op /\ procs[p].pc = pc

\* a new request takes the first idle slot (the slots are interchangeable)
FirstIdle(p) ==
    /\ procs[p].pc = "idle"
    /\ \A q \in Procs : q < p => procs[q].pc # "idle"

Goto(p, pc) == procs' = [procs EXCEPT ![p].pc = pc]

Answer(p) == procs' = [procs EXCEPT ![p] = Idle]

\* postBooking: await validateTicket(userId)
PostValidateTicket(p) ==
    /\ FirstIdle(p)
    /\ \E userId \in UserIds, roomId \in RoomIdInputs, ticket \in Tickets :
         IF ValidateTicket(ticket) = ok
         THEN procs' = [procs EXCEPT ![p] =
                [Idle EXCEPT !.op = "post", !.pc = "validateBookingByRoomId",
                             !.userId = userId, !.roomId = roomId]]
         ELSE Answer(p)
    /\ UNCHANGED <<rooms, bookings, nextId, last>>

\* postBooking: await validateBookingByRoomId(roomId)
PostValidateRoom(p) ==
    /\ At(p, "post", "validateBookingByRoomId")
    /\ IF ValidateBookingByRoomId(bookings, procs[p].roomId) = ok
       THEN Goto(p, "validateBookingByUserId")
       ELSE Answer(p)
    /\ UNCHANGED <<rooms, bookings, nextId, last>>

\* postBooking: await validateBookingByUserId(userId)
PostValidateUser(p) ==
    /\ At(p, "post", "validateBookingByUserId")
    /\ \E booking \in FindBookingByUserId(bookings, procs[p].userId) :
         IF ValidateBookingByUserId(booking) = ok
         THEN Goto(p, "insertBooking")
         ELSE Answer(p)
    /\ UNCHANGED <<rooms, bookings, nextId, last>>

\* postBooking: await bookingRepository.insertBooking(userId, roomId)
PostInsert(p) ==
    /\ At(p, "post", "insertBooking")
    /\ nextId <= MaxBookingId
    /\ bookings' = InsertBooking(bookings, nextId, procs[p].userId,
                                 procs[p].roomId)
    /\ nextId' = nextId + 1
    /\ Answer(p)
    /\ UNCHANGED <<rooms, last>>

\* putBooking: await checkUserHasBooking(userId), then await
\* checkRoomExists(roomId). The rows of Room never change, so the read of
\* Room commutes with every step of the other request and is taken here.
PutCheckUser(p) ==
    /\ FirstIdle(p)
    /\ \E userId \in UserIds, roomId \in RoomIdInputs, bookingId \in BookingIds :
       \E bookingFromUser \in FindBookingByUserId(bookings, userId) :
         IF /\ CheckUserHasBooking(bookingFromUser) = ok
            /\ CheckRoomExists(roomId) = ok
         THEN procs' = [procs EXCEPT ![p] =
                [Idle EXCEPT !.op = "put", !.pc = "checkBookingExists",
                             !.userId = userId, !.roomId = roomId,
                             !.bookingId = bookingId,
                             !.bookingFromUser = bookingFromUser.id]]
         ELSE Answer(p)
    /\ UNCHANGED <<rooms, bookings, nextId, last>>

\* putBooking: await checkBookingExists(bookingId), then the comparison of
\* bookingFromUser.id with booking.id
PutCheckBooking(p) ==
    /\ At(p, "put", "checkBookingExists")
    /\ IF /\ CheckBookingExists(bookings, procs[p].bookingId) = ok
          /\ procs[p].bookingFromUser
               = FindBookingByBookingId(bookings, procs[p].bookingId).id
       THEN Goto(p, "validateBookingByRoomId")
       ELSE Answer(p)
    /\ UNCHANGED <<rooms, bookings, nextId, last>>

\* putBooking: await validateBookingByRoomId(roomId)
PutValidateRoom(p) ==
    /\ At(p, "put", "validateBookingByRoomId")
    /\ IF ValidateBookingByRoomId(bookings, procs[p].roomId) = ok
       THEN Goto(p, "updateBooking")
       ELSE Answer(p)
    /\ UNCHANGED <<rooms, bookings, nextId, last>>

\* putBooking: await bookingRepository.updateBooking(bookingId, roomId)
PutUpdate(p) ==
    /\ At(p, "put", "updateBooking")
    /\ bookings' = UpdateBooking(bookings, procs[p].bookingId, procs[p].roomId)
    /\ Answer(p)
    /\ UNCHANGED <<rooms, nextId, last>>

NextRace ==
    \E p \in Procs :
        \/ PostValidateTicket(p)
        \/ PostValidateRoom(p)
        \/ PostValidateUser(p)
        \/ PostInsert(p)
        \/ PutCheckUser(p)
        \/ PutCheckBooking(p)
        \/ PutValidateRoom(p)
        \/ PutUpdate(p)

SpecRace == Init /\ [][NextRace]_vars

---------------------------------------------------------------------------
(* Properties of the requests served one at a time (Spec) *)

Eligible(ticket) ==
    ticket.status = "PAID" /\ ticket.includesHotel /\ ~ticket.isRemote

RoomFull(bs, roomId) == roomId \in RoomIds /\ Count(bs, roomId) >= rooms[roomId]

BookingExists(bs, bookingId) == \E b \in bs : b.id = bookingId

OwnBooking(bs, userId, bookingId) ==
    \E b \in bs : b.id = bookingId /\ b.userId = userId

\* C1: from a store where every room holds at most capacity bookings, after
\* any sequence of postBooking and putBooking calls run one at a time every
\* room still holds at most capacity bookings.
C1_RoomCapacity == CapacityRespected(bookings)

\* a putBooking succeeded and filled its target room up to a capacity >= 2
C1_Witness ==
    /\ last.op = "put" /\ last.err = ok
    /\ rooms[last.roomId] >= 2
    /\ Count(bookings, last.roomId) = rooms[last.roomId]

\* C2: from a store where every user has at most one booking, after any
\* sequence of postBooking and putBooking calls run one at a time every user
\* still has at most one booking.
C2_OneBookingPerUser == OneBookingPerUser(bookings)

\* a postBooking succeeded next to another user's booking
C2_Witness ==
    /\ last.op = "post" /\ last.err = ok
    /\ Cardinality(BookingsOf(bookings, last.userId)) = 1
    /\ Cardinality(bookings) >= 2

\* C3: postBooking with a ticket that is not (PAID, includesHotel, not
\* isRemote) fails with Unauthorized (401) and inserts no booking, whatever
\* the room and the user's bookings are.
C3_TicketGate ==
    [][(last'.op = "post" /\ ~Eligible(last'.ticket))
         => /\ last'.err = UnauthorizedError
            /\ last'.status = 401
            /\ bookings' = bookings
            /\ nextId' = nextId]_vars

\* a PAID, hotel-including but remote ticket was refused with 401 although
\* the user already has a booking and the target room is full
C3_Witness ==
    /\ last.op = "post" /\ last.status = 401
    /\ last.ticket = [status |-> "PAID", includesHotel |-> TRUE,
                      isRemote |-> TRUE]
    /\ BookingsOf(bookings, last.userId) # {}
    /\ RoomFull(bookings, last.roomId)
    /\ Count(bookings, last.roomId) >= 1

\* C4 as stated: with an eligible ticket postBooking fails with Forbidden
\* (403) and inserts nothing whenever the target room is full or the user
\* already has a booking, for every room id and store.
C4_Original ==
    [][(/\ last'.op = "post"
        /\ Eligible(last'.ticket)
        /\ \/ RoomFull(bookings, last'.roomId)
           \/ BookingsOf(bookings, last'.userId) # {})
         => /\ last'.err = ForbiddenError
            /\ last'.status = 403
            /\ bookings' = bookings]_vars

\* C4 amended: with an eligible ticket, postBooking to a room that at least
\* one booking references fails with Forbidden (403) and inserts nothing
\* whenever that room is full or the user already has a booking; when no
\* booking references the target room it fails with NotFound (404) and
\* inserts nothing.
C4_ForbiddenPost ==
    [][(last'.op = "post" /\ Eligible(last'.ticket))
         => /\ (/\ Count(bookings, last'.roomId) >= 1
                /\ \/ RoomFull(bookings, last'.roomId)
                   \/ BookingsOf(bookings, last'.userId) # {})
                  => /\ last'.err = ForbiddenError
                     /\ last'.status = 403
                     /\ bookings' = bookings
            /\ Count(bookings, last'.roomId) = 0
                  => /\ last'.err = NotFoundError
                     /\ last'.status = 404
                     /\ bookings' = bookings]_vars

\* an eligible user with a booking was refused with 403 on a room that has
\* bookings and free places
C4_Witness ==
    /\ last.op = "post" /\ Eligible(last.ticket) /\ last.status = 403
    /\ BookingsOf(bookings, last.userId) # {}
    /\ Count(bookings, last.roomId) >= 1
    /\ ~RoomFull(bookings, last.roomId)

\* C5: right after postBooking(userId, roomId) succeeded with booking id b,
\* getBookingByUserId(userId) succeeds with {id: b, Room: the room roomId};
\* and getBookingByUserId fails with NotFound exactly when the user has no
\* booking.
C5_PostThenGet ==
    /\ (last.op = "post" /\ last.err = ok)
         => \A booking \in FindBookingByUserId(bookings, last.userId) :
              GetBookingByUserId(booking) =
                [err |-> ok,
                 body |-> [id |-> last.value,
                           Room |-> [id |-> last.roomId,
                                     capacity |-> rooms[last.roomId]]]]
    /\ last.op = "get"
         => /\ last.err = NotFoundError
                  <=> BookingsOf(bookings, last.userId) = {}
            /\ last.err \in {ok, NotFoundError}
            /\ last.status = 404 <=> last.err = NotFoundError
            /\ last.err = ok
                  => \E b \in BookingsOf(bookings, last.userId) :
                        last.body = [id |-> b.id,
                                     Room |-> [id |-> b.roomId,
                                               capacity |-> rooms[b.roomId]]]

\* a postBooking succeeded and its booking id differs from the user id
C5_Witness ==
    /\ last.op = "post" /\ last.err = ok /\ last.status = 200
    /\ last.value # last.userId
    /\ OwnBooking(bookings, last.userId, last.value)

\* C6 as stated: putBooking fails with Forbidden (403) whenever bookingId is
\* not the id of the caller's own booking, and with NotFound (404) whenever
\* roomId names no room or bookingId names no booking.
C6_Original ==
    last.op = "put"
      => /\ ~OwnBooking(bookings, last.userId, last.bookingId)
              => (last.err = ForbiddenError /\ last.status = 403)
         /\ (\/ last.roomId \notin RoomIds
             \/ ~BookingExists(bookings, last.bookingId))
              => (last.err = NotFoundError /\ last.status = 404)

\* C6 amended: putBooking fails with Forbidden (403) when the caller has no
\* booking; otherwise with NotFound (404) when roomId names no room or
\* bookingId names no booking; otherwise with Forbidden (403) when bookingId
\* is not the id of the caller's booking.
C6_PutOutcomes ==
    last.op = "put"
      => IF BookingsOf(bookings, last.userId) = {}
         THEN last.err = ForbiddenError /\ last.status = 403
         ELSE IF \/ last.roomId \notin RoomIds
                 \/ ~BookingExists(bookings, last.bookingId)
         THEN last.err = NotFoundError /\ last.status = 404
         ELSE IF ~OwnBooking(bookings, last.userId, last.bookingId)
         THEN last.err = ForbiddenError /\ last.status = 403
         ELSE last.err \in {ok, ForbiddenError, NotFoundError}

\* a caller with a booking was refused with 403 on another user's booking
C6_Witness ==
    /\ last.op = "put" /\ last.status = 403
    /\ BookingsOf(bookings, last.userId) # {}
    /\ last.roomId \in RoomIds
    /\ BookingExists(bookings, last.bookingId)
    /\ ~OwnBooking(bookings, last.userId, last.bookingId)

\* C8: a postBooking or putBooking that ends in an error leaves the bookings
\* exactly as they were, and getBookingByUserId never changes the store.
C8_NoPartialEffects ==
    [][/\ (last'.op \in {"post", "put"} /\ last'.err # ok)
            => (bookings' = bookings /\ nextId' = nextId /\ rooms' = rooms)
       /\ last'.op = "get"
            => (bookings' = bookings /\ nextId' = nextId /\ rooms' = rooms)
       /\ last'.err \in {ok, UnauthorizedError, ForbiddenError,
                         NotFoundError}]_vars

\* a postBooking passed the ticket and room guards and failed on the last
\* guard, the user's existing booking
C8_Witness ==
    /\ last.op = "post" /\ last.err = ForbiddenError
    /\ Eligible(last.ticket)
    /\ ValidateBookingByRoomId(bookings, last.roomId) = ok
    /\ BookingsOf(bookings, last.userId) # {}

\* C9: a successful putBooking(userId, roomId, bookingId) sets the roomId of
\* the booking bookingId, which is the caller's, to roomId; it returns
\* bookingId, adds and removes no booking and changes no other booking.
C9_PutFrame ==
    [][(last'.op = "put" /\ last'.err = ok)
         => /\ last'.value = last'.bookingId
            /\ last'.status = 200
            /\ \E b \in bookings :
                 /\ b.id = last'.bookingId
                 /\ b.userId = last'.userId
                 /\ bookings' = (bookings \ {b})
                       \cup {[id |-> b.id, userId |-> b.userId,
                              roomId |-> last'.roomId]}
            /\ Cardinality(bookings') = Cardinality(bookings)
            /\ nextId' = nextId]_vars

\* a putBooking succeeded while another user holds a booking too
C9_Witness ==
    /\ last.op = "put" /\ last.err = ok
    /\ \E b \in bookings : b.userId # last.userId
    /\ \E b \in bookings :
         b.id = last.bookingId /\ b.userId = last.userId
                               /\ b.roomId = last.roomId

\* C10 as stated: postBooking and putBooking targeting an existing room that
\* no booking references always fail with NotFound.
C10_Original ==
    [][(/\ last'.op \in {"post", "put"}
        /\ last'.roomId \in RoomIds
        /\ Count(bookings, last'.roomId) = 0)
         => last'.err = NotFoundError]_vars

\* C10 amended: postBooking and putBooking targeting an existing room that
\* no booking references always fail: with NotFound, unless an earlier guard
\* fails first (postBooking's ticket check: Unauthorized; putBooking's
\* caller-has-no-booking and booking-id-mismatch checks: Forbidden). A room
\* with no bookings never gains one, and from a store with no bookings no
\* booking is ever created.
C10_EmptyRoomUnknown ==
    [][/\ (/\ last'.op = "post"
           /\ last'.roomId \in RoomIds
           /\ Count(bookings, last'.roomId) = 0)
            => last'.err = IF Eligible(last'.ticket) THEN NotFoundError
                           ELSE UnauthorizedError
       /\ (/\ last'.op = "put"
           /\ last'.roomId \in RoomIds
           /\ Count(bookings, last'.roomId) = 0)
            => last'.err =
                 IF BookingsOf(bookings, last'.userId) = {}
                 THEN ForbiddenError
                 ELSE IF ~BookingExists(bookings, last'.bookingId)
                 THEN NotFoundError
                 ELSE IF ~OwnBooking(bookings, last'.userId, last'.bookingId)
                 THEN ForbiddenError
                 ELSE NotFoundError
       /\ \A r \in RoomIds :
            Count(bookings, r) = 0 => Count(bookings', r) = 0
       /\ bookings = {} => bookings' = {}]_vars

\* an eligible user without booking was refused with 404 on an existing room
\* with free places that no booking references
C10_Witness ==
    /\ last.op = "post" /\ Eligible(last.ticket) /\ last.status = 404
    /\ last.roomId \in RoomIds
    /\ rooms[last.roomId] >= 1
    /\ Count(bookings, last.roomId) = 0
    /\ BookingsOf(bookings, last.userId) = {}

---------------------------------------------------------------------------
(* Properties of two interleaved requests (SpecRace) *)

Intended(bs) == CapacityRespected(bs) /\ OneBookingPerUser(bs)

\* the guards of the request in slot p, run again on the store as it is
GuardsThrow(p) ==
    \/ ValidateBookingByRoomId(bookings, procs[p].roomId) # ok
    \/ /\ procs[p].op = "post"
       /\ \E booking \in FindBookingByUserId(bookings, procs[p].userId) :
            ValidateBookingByUserId(booking) # ok

\* C7: two interleaved requests can break the intended invariant (a room
\* with more bookings than its capacity, or a user with two bookings), and
\* the write that breaks it is always the write of a request whose guards
\* would throw on the store as it is at the write: the request passed them
\* on an older store, and the other request wrote in between.
C7_GuardRace ==
    [][(Intended(bookings) /\ ~Intended(bookings'))
         => \E p \in Procs :
              /\ procs[p].pc \in {"insertBooking", "updateBooking"}
              /\ procs'[p] = Idle
              /\ GuardsThrow(p)]_vars

\* both requests are answered and a room holds more bookings than its
\* capacity
C7_Witness ==
    /\ \A p \in Procs : procs[p] = Idle
    /\ \E r \in RoomIds : Count(bookings, r) > rooms[r]

===========================================================================
